---- MODULE Spec2Model ----
(***************************************************************************)
(* TTRPG table manager: the table data model (models.py), the CSV loader   *)
(* that builds the directory tree (loaders.py) and the curses browser      *)
(* (views.py run_tui, query_table_view, dump_table_view).                  *)
(*                                                                         *)
(* Eight specifications share the variables:                               *)
(*   SpecTable  loads the rows of one CSV file and applies                 *)
(*              TableRow.matches, Table.query and Table.get_range_bounds;  *)
(*   SpecLoad   reads one CSV file with _load_file, header row and data    *)
(*              rows drawn from samples, malformed ones included;          *)
(*   SpecApi    constructs TableDirectory objects and calls add_subdir on  *)
(*              any of them;                                               *)
(*   Spec       loads a directory (or a missing path) with the loader's    *)
(*              recursive walk and then runs the browser on the tree;      *)
(*   SpecFile   loads a single CSV file and then runs the browser, with    *)
(*              every line the query prompt can be given;                  *)
(*   SpecScroll runs the browser's navigation keys on one loaded tree,     *)
(*              each frame keeping the key and the window before it;       *)
(*   SpecRange  displays a TableRow's range and parses the text back with  *)
(*              _parse_range;                                              *)
(*   SpecCli    runs the plain loop of main.py (select_item, query_table)  *)
(*              on one loaded tree.                                        *)
(*                                                                         *)
(* Names (directory and table names) are small integers; their order is    *)
(* the order Python's sorted() gives the strings they stand for.           *)
(* None is 0 wherever the code holds an object reference or None.          *)
(***************************************************************************)
EXTENDS Integers, Sequences, FiniteSets, TLC

VARIABLES
    rows,               \* Table.rows of the table under test (SpecTable)
    call,               \* the last call made on it and what it returned
    dirs,               \* the TableDirectory objects: id -> [name, parent, subdirs, tables]
    loadStack,          \* the _load_recursive frames: directory ids, innermost last
    pc,                 \* where the program is: "load", "render", "input", ...
    current_dir,        \* run_tui: current_dir
    selected_idx,       \* run_tui: selected_idx
    path_stack,         \* run_tui: path_stack
    logo_lines,         \* run_tui: len(logo_lines), read once
    height,             \* run_tui: height of the last getmaxyx()
    max_display_items,  \* run_tui: max_display_items of the last frame
    start_idx,          \* run_tui: start_idx of the last frame
    view_table,         \* the table handed to query_table_view / dump_table_view
    result_text,        \* query_table_view: result_text of the last input
    last,               \* the last key or call handled, with the state it started from
    trail,              \* the (current_dir, path_stack) each descent started from
    api_calls,          \* SpecApi: the number of add_subdir calls made so far
    file_headers,       \* _load_file: headers, the first row of the reader
    csv,                \* _load_file: the data rows the reader has returned so far
    log                 \* _load_file: the line numbers g_logger.warning was called for

fileVars == <<file_headers, csv, log>>
tableVars == <<rows, call, fileVars>>
treeVars == <<dirs, loadStack>>
tuiVars == <<pc, current_dir, selected_idx, path_stack, logo_lines, height,
             max_display_items, start_idx, view_table, result_text, last, trail>>
vars == <<rows, call, dirs, loadStack, pc, current_dir, selected_idx, path_stack,
          logo_lines, height, max_display_items, start_idx, view_table,
          result_text, last, trail, api_calls, file_headers, csv, log>>

----------------------------------------------------------------------------
(* Bounds of the model *)

MaxRows == 3
MaxVal == 1
MaxItems == 3
MaxHeight == 7
MaxInput == 2
MaxLogo == 1
MaxCalls == 3
MaxRange == 11     \* the range ends a displayed row holds: -MaxRange..MaxRange

None == 0

Min2(a, b) == IF a <= b THEN a ELSE b
Max2(a, b) == IF a >= b THEN a ELSE b

----------------------------------------------------------------------------
(* models.py: TableRow and Table *)

TableRow(s, e, c) == [range_start |-> s, range_end |-> e, content |-> c]

matches_from_start(row, value) == row.range_start <= value

\* TableRow.matches: range_start <= value <= range_end
matches(row, value) == row.range_start <= value /\ value <= row.range_end

RECURSIVE queryFrom(_, _, _)
queryFrom(rs, value, i) ==
    IF i > Len(rs) THEN None
    ELSE IF matches(rs[i], value) THEN i
    ELSE queryFrom(rs, value, i + 1)

RECURSIVE queryLastFrom(_, _, _)
queryLastFrom(rs, value, i) ==
    IF i < 1 THEN None
    ELSE IF matches(rs[i], value) THEN i
    ELSE queryLastFrom(rs, value, i - 1)

queryLast(rs, value) == queryLastFrom(rs, value, Len(rs))

\* Table.query: the for loop returns the first row that matches, else None.
\* The row object is its position in rows (1-based); None is 0.
query(rs, value) == queryFrom(rs, value, 1)

\* Python's min()/max() over a generator: keep the best seen so far.
RECURSIVE minFrom(_, _, _)
minFrom(rs, i, best) ==
    IF i > Len(rs) THEN best
    ELSE minFrom(rs, i + 1, IF rs[i].range_start < best THEN rs[i].range_start ELSE best)

RECURSIVE maxFrom(_, _, _)
maxFrom(rs, i, best) ==
    IF i > Len(rs) THEN best
    ELSE maxFrom(rs, i + 1, IF rs[i].range_end > best THEN rs[i].range_end ELSE best)

boundsFirstRow(rs) ==
    IF Len(rs) = 0 THEN <<0, 0>> ELSE <<rs[1].range_start, rs[1].range_end>>

\* Table.get_range_bounds
get_range_bounds(rs) ==
    IF Len(rs) = 0 THEN <<0, 0>>
    ELSE <<minFrom(rs, 2, rs[1].range_start), maxFrom(rs, 2, rs[1].range_end)>>

----------------------------------------------------------------------------
(* TableDirectory: name, tables, subdirs, parent *)

\* The directory names and the file names of the model
Names == {1, 2}
RootName == 0
DotDot == -1

\* TableDirectory(name): no parent, no tables, no subdirs.
\* subdirs is the dict name -> directory; None marks a key that is absent.
TableDirectory(name) ==
    [name |-> name, parent |-> None, tables |-> <<>>,
     subdirs |-> [n \in Names |-> None]]

\* Table(name, headers, rows)
Table(name, headers, rs) == [name |-> name, headers |-> headers, rows |-> rs]

\* TableDirectory.add_table: tables.append(table)
add_table(ds, d, table) == [ds EXCEPT ![d].tables = Append(@, table)]

add_subdir_forward_only(ds, p, c) == [ds EXCEPT ![p].subdirs[ds[c].name] = c]

\* TableDirectory.add_subdir: subdirs[subdir.name] = subdir; subdir.parent = self
add_subdir(ds, p, c) ==
    [[ds EXCEPT ![p].subdirs[ds[c].name] = c] EXCEPT ![c].parent = p]

----------------------------------------------------------------------------
(* Text: sequences of one-character strings, and the str and int calls   *)
(* the code makes on them                                                 *)

DigitChars == <<"0", "1", "2", "3", "4", "5", "6", "7", "8", "9">>
Digits == {DigitChars[i] : i \in 1..Len(DigitChars)}

DigitVal(c) == (CHOOSE i \in 1..Len(DigitChars) : DigitChars[i] = c) - 1
DigitOf(n) == DigitChars[n + 1]

\* str.strip(): drop the leading and the trailing whitespace
RECURSIVE lstrip(_)
lstrip(s) == IF s # <<>> /\ Head(s) = " " THEN lstrip(Tail(s)) ELSE s

RECURSIVE rstrip(_)
rstrip(s) ==
    IF s # <<>> /\ s[Len(s)] = " " THEN rstrip(SubSeq(s, 1, Len(s) - 1)) ELSE s

strip(s) == rstrip(lstrip(s))

\* str.lower() on the letters of the model
LowerChar(c) == IF c = "Q" THEN "q" ELSE IF c = "B" THEN "b" ELSE c
lower(s) == [i \in 1..Len(s) |-> LowerChar(s[i])]

IsDigits(s) == s # <<>> /\ \A i \in 1..Len(s) : s[i] \in Digits

RECURSIVE DigitsVal(_)
DigitsVal(s) ==
    IF s = <<>> THEN 0 ELSE 10 * DigitsVal(SubSeq(s, 1, Len(s) - 1)) + DigitVal(s[Len(s)])

\* int(text) on the characters of the model: surrounding whitespace is
\* dropped, then an optional minus sign, then one or more digits; anything
\* else raises ValueError (IsInt is FALSE).
IsInt(s) ==
    LET t == strip(s)
    IN IF t # <<>> /\ Head(t) = "-" THEN IsDigits(Tail(t)) ELSE IsDigits(t)

IntVal(s) ==
    LET t == strip(s)
    IN IF Head(t) = "-" THEN 0 - DigitsVal(Tail(t)) ELSE DigitsVal(t)

\* str.split('-'): the pieces between the minus signs
RECURSIVE split(_, _)
split(s, cur) ==
    IF s = <<>> THEN <<cur>>
    ELSE IF Head(s) = "-" THEN <<cur>> \o split(Tail(s), <<>>)
    ELSE split(Tail(s), Append(cur, Head(s)))

----------------------------------------------------------------------------
(* loaders.py: CSVTableLoader *)

\* What _load_file returns for the files of the model: the headers and the
\* rows of a well-formed CSV file.
Headers == <<"Range", "Result">>

\* _parse_range(range_str): "a-b" gives (int(a), int(b)), anything else
\* (int(s), int(s)); ok is FALSE where an int() raises ValueError.
\* Nothing compares start with end.
parse_range(s) ==
    LET parts == split(s, <<>>)
    IN IF \E i \in 1..Len(s) : s[i] = "-" THEN
           IF Len(parts) = 2 THEN
               IF IsInt(parts[1]) /\ IsInt(parts[2])
               THEN [ok |-> TRUE, start |-> IntVal(parts[1]), end |-> IntVal(parts[2])]
               ELSE [ok |-> FALSE, start |-> 0, end |-> 0]
           ELSE IF IsInt(s) THEN [ok |-> TRUE, start |-> IntVal(s), end |-> IntVal(s)]
           ELSE [ok |-> FALSE, start |-> 0, end |-> 0]
       ELSE IF IsInt(s) THEN [ok |-> TRUE, start |-> IntVal(s), end |-> IntVal(s)]
       ELSE [ok |-> FALSE, start |-> 0, end |-> 0]

load_row_keep_bad(range_str, content) ==
    LET r == parse_range(strip(range_str))
    IN <<TableRow(r.start, r.end, content)>>

\* _load_file, one data row: the range column is stripped and parsed, the
\* rest is the content; a row whose range does not parse is skipped.
load_row(range_str, content) ==
    LET r == parse_range(strip(range_str))
    IN IF r.ok THEN <<TableRow(r.start, r.end, content)>> ELSE <<>>

\* The CSV files of the model: file 1 holds the rows "1-2,Low" and
\* "2-3,High", any other file only the header row.
FileRows(item) ==
    IF item = 1
    THEN load_row(<<"1", "-", "2">>, <<"Low">>) \o load_row(<<"2", "-", "3">>, <<"High">>)
    ELSE <<>>

\* _load_file(filepath): the table is named after the file
load_file(item) == Table(item, Headers, FileRows(item))

\* _load_recursive, the isdir branch: subdir = TableDirectory(name=item);
\* current_dir.add_subdir(subdir).  The new object is the next id.
load_subdir(ds, cur, item) ==
    add_subdir(Append(ds, TableDirectory(item)), cur, Len(ds) + 1)

\* _load_recursive, the isfile branch: current_dir.add_table(_load_file(path))
load_table(ds, cur, item) == add_table(ds, cur, load_file(item))

\* The names os.listdir has not yet returned for the directory being walked:
\* a directory holds each file name and each directory name once.
FreeDirNames(d) == {n \in Names : dirs[d].subdirs[n] = None}
FreeFileNames(d) ==
    {n \in Names : \A i \in 1..Len(dirs[d].tables) : dirs[d].tables[i].name # n}

TotalTables == LET RECURSIVE Sum(_)
                   Sum(i) == IF i = 0 THEN 0 ELSE Len(dirs[i].tables) + Sum(i - 1)
               IN Sum(Len(dirs))

----------------------------------------------------------------------------
(* views.py: the entry list of a directory *)

\* sorted(keys): ascending
RECURSIVE SortedSeq(_)
SortedSeq(S) ==
    IF S = {} THEN <<>>
    ELSE LET m == CHOOSE x \in S : \A y \in S : x <= y
         IN <<m>> \o SortedSeq(S \ {m})

RECURSIVE DescendingSeq(_)
DescendingSeq(S) ==
    IF S = {} THEN <<>>
    ELSE LET m == CHOOSE x \in S : \A y \in S : x >= y
         IN <<m>> \o DescendingSeq(S \ {m})

\* An entry (display name, type, object).  A directory object is its id; a
\* table object is the directory that holds it and its position there.
Item(name, type, d, i) == [name |-> name, type |-> type, obj |-> [dir |-> d, idx |-> i]]

ParentItems(ds, d) ==
    IF ds[d].parent # None THEN <<Item(DotDot, "DIR_UP", ds[d].parent, 0)>> ELSE <<>>

SubdirKeys(ds, d) == {n \in Names : ds[d].subdirs[n] # None}

SubdirItemsDescending(ds, d) ==
    LET keys == DescendingSeq(SubdirKeys(ds, d))
    IN [k \in 1..Len(keys) |-> Item(keys[k], "DIR", ds[d].subdirs[keys[k]], 0)]

\* for sub_name in sorted(current_dir.subdirs.keys())
SubdirItems(ds, d) ==
    LET keys == SortedSeq(SubdirKeys(ds, d))
    IN [k \in 1..Len(keys) |-> Item(keys[k], "DIR", ds[d].subdirs[keys[k]], 0)]

\* for table in current_dir.tables
TableItems(ds, d) ==
    [i \in 1..Len(ds[d].tables) |-> Item(ds[d].tables[i].name, "TABLE", d, i)]

\* get_items_for_dir (views.py) and browse_directory (main.py) build the
\* same list: "..", then the sorted subdirectories, then the tables.
get_items_for_dir(ds, d) == ParentItems(ds, d) \o SubdirItems(ds, d) \o TableItems(ds, d)

items == get_items_for_dir(dirs, current_dir)

TableOf(ref) == dirs[ref.dir].tables[ref.idx]

----------------------------------------------------------------------------
(* views.py: run_tui, the pieces of one frame *)

Heights == 1..MaxHeight

clampUpperOnly(sel, n) == IF sel >= n THEN n - 1 ELSE sel

\* "Ensure selection is valid": the two ifs at the top of the loop
clamp(sel, n) ==
    LET s1 == IF sel >= n THEN n - 1 ELSE sel
    IN IF s1 < 0 THEN 0 ELSE s1

\* logo_y when the header is drawn: one row per logo line shown, at most
\* height // 3 of them, and one blank row, when there is a logo
HeaderRow(logo, h) == IF logo > 0 THEN Min2(logo, h \div 3) + 1 ELSE 0

\* max_display_items = height - logo_y - 2, logo_y now past the header
MaxDisplayItems(logo, h) == h - (HeaderRow(logo, h) + 1) - 2

StartIdxOffByOne(sel, page) == IF sel >= page THEN sel - page ELSE 0

\* start_idx = 0; if selected_idx >= max_display_items: start_idx = ...
StartIdx(sel, page) == IF sel >= page THEN sel - page + 1 ELSE 0

move_up_unclamped(sel) == sel - 1

\* KEY_UP: max(0, selected_idx - 1)
move_up(sel) == Max2(0, sel - 1)

\* KEY_DOWN: min(len(items) - 1, selected_idx + 1)
move_down(sel, n) == Min2(n - 1, sel + 1)

go_up_keep_path(ds, cur, path) == [dir |-> ds[cur].parent, path |-> path]

\* Enter on "..": current_dir = current_dir.parent; path_stack.pop()
go_up(ds, cur, path) ==
    [dir |-> ds[cur].parent, path |-> SubSeq(path, 1, Len(path) - 1)]

go_down_no_push(item, path) == [dir |-> item.obj.dir, path |-> path]

\* Enter on a directory: current_dir = obj; path_stack.append(name)
go_down(item, path) == [dir |-> item.obj.dir, path |-> Append(path, item.name)]

\* query_table_view: the characters typed at the prompt
Chars == {" ", "q", "Q", "b", "B", "-", "1", "2"}
Inputs == UNION {[1..n -> Chars] : n \in 0..MaxInput}

\* query_table_view: result_text for an input that is not "q"
query_result(table, user_input) ==
    IF IsInt(user_input) THEN
        LET row == query(table.rows, IntVal(user_input))
        IN IF row # None THEN [kind |-> "row", row |-> row]
           ELSE [kind |-> "nomatch", row |-> None]
    ELSE [kind |-> "invalid", row |-> None]

\* The screen rows result_text takes: headers, divider and row, or one notice
ResultLines(r) == IF r.kind = "row" THEN 3 ELSE 1

----------------------------------------------------------------------------
(* What the variables of a part hold while another part runs *)

NoCall == [op |-> "none", row |-> 0, value |-> 0, hit |-> FALSE, found |-> None,
           bounds |-> <<0, 0>>]
NoRef == [dir |-> 0, idx |-> 0]
NoResult == [kind |-> "none", row |-> None]
NoEvent == [ev |-> "none", cur |-> 0, sel |-> 0, path |-> <<>>, n |-> 0,
            obj |-> NoRef, input |-> <<>>, back |-> <<>>,
            key |-> "none", start |-> 0, page |-> 0]

TableIdle ==
    /\ rows = <<>> /\ call = NoCall /\ api_calls = 0
    /\ file_headers = <<>> /\ csv = <<>> /\ log = <<>>
TreeIdle == dirs = <<>> /\ loadStack = <<>>
TuiIdle ==
    /\ current_dir = None /\ selected_idx = 0 /\ path_stack = <<>>
    /\ logo_lines = 0 /\ height = 0 /\ max_display_items = 0 /\ start_idx = 0
    /\ view_table = NoRef /\ result_text = NoResult /\ last = NoEvent
    /\ trail = <<>>

tuiLocals == <<current_dir, selected_idx, path_stack, logo_lines, height,
               max_display_items, start_idx, view_table, result_text, trail>>
tuiState == <<tuiLocals, last>>

----------------------------------------------------------------------------
(* SpecTable: the calls of models.py on one table *)

\* The range column of the CSV rows of the model: "a", "a-b" and "-a" with
\* a and b up to MaxVal.
RangeTexts ==
    {<<DigitOf(a)>> : a \in 0..MaxVal}
        \cup {<<DigitOf(a), "-", DigitOf(b)>> : a \in 0..MaxVal, b \in 0..MaxVal}
        \cup {<<"-", DigitOf(a)>> : a \in 0..MaxVal}
Values == (0 - 1)..(MaxVal + 1)

InitTable ==
    /\ TableIdle
    /\ pc = "file"
    /\ TreeIdle /\ TuiIdle

\* _load_file: the next row of the CSV reader
LoadRow ==
    /\ pc = "file"
    /\ Len(rows) < MaxRows
    /\ \E t \in RangeTexts : rows' = rows \o load_row(t, <<"x">>)
    /\ UNCHANGED <<call, pc, fileVars, treeVars, api_calls, tuiState>>

\* _load_file: the reader is exhausted, return Table(table_name, headers, rows)
LoadReturn ==
    /\ pc = "file"
    /\ pc' = "table"
    /\ UNCHANGED <<rows, call, fileVars, treeVars, api_calls, tuiState>>

\* row.matches(value)
CallMatches ==
    /\ pc = "table"
    /\ \E i \in 1..Len(rows), v \in Values :
          call' = [NoCall EXCEPT !.op = "matches", !.row = i, !.value = v,
                                  !.hit = matches(rows[i], v)]
    /\ UNCHANGED <<rows, pc, fileVars, treeVars, api_calls, tuiState>>

\* table.query(value)
CallQuery ==
    /\ pc = "table"
    /\ \E v \in Values :
          call' = [NoCall EXCEPT !.op = "query", !.value = v, !.found = query(rows, v)]
    /\ UNCHANGED <<rows, pc, fileVars, treeVars, api_calls, tuiState>>

\* table.get_range_bounds()
CallBounds ==
    /\ pc = "table"
    /\ call' = [NoCall EXCEPT !.op = "bounds", !.bounds = get_range_bounds(rows)]
    /\ UNCHANGED <<rows, pc, fileVars, treeVars, api_calls, tuiState>>

NextTable == LoadRow \/ LoadReturn \/ CallMatches \/ CallQuery \/ CallBounds

SpecTable == InitTable /\ [][NextTable]_vars

----------------------------------------------------------------------------
(* SpecLoad: _load_file on one CSV file *)

\* The header rows of the model: an empty file or a blank first line (both
\* false in "if not headers"), and one, two and three columns
\* The call made on directory d with object obj
Call(e, d, obj) == [NoEvent EXCEPT !.ev = e, !.cur = d, !.obj = obj]

HeaderSamples ==
    {<<>>, <<"Range">>, <<"Range", "Result">>, <<"Range", "Result", "Notes">>}

\* The range columns of the model: "1", "1-2", "2-1", "-1", "x", " 3"
RangeSamples ==
    {<<"1">>, <<"1", "-", "2">>, <<"2", "-", "1">>, <<"-", "1">>, <<"x">>,
     <<" ", "3">>}

\* The data rows of the model: a blank line, or a range column followed by
\* no, one or two cells
DataRows ==
    {<<>>} \cup {<<t>> \o c : t \in RangeSamples, c \in {<<>>, <<"a">>, <<"a", "b">>}}

\* _load_file, the body of the for loop: a blank row is passed over, the
\* range column of any other is stripped and parsed
load_line(row_data) ==
    IF row_data = <<>> THEN <<>> ELSE load_row(row_data[1], Tail(row_data))

\* except ValueError: g_logger.warning("Skipping invalid row ...")
warns(row_data) == row_data # <<>> /\ ~parse_range(strip(row_data[1])).ok

InitLoad ==
    /\ TableIdle /\ TuiIdle
    /\ dirs = <<TableDirectory(RootName)>>
    /\ loadStack = <<>>
    /\ pc = "open"

headers_nonempty(h) == h # <<>>

\* not (not headers or len(headers) < 2)
headers_ok(h) == ~(h = <<>> \/ Len(h) < 2)

\* headers = next(reader, None); ValueError unless there are two columns
ReadHeaders ==
    /\ pc = "open"
    /\ \E h \in HeaderSamples :
          /\ file_headers' = h
          /\ pc' = IF headers_ok(h) THEN "rows" ELSE "file_error"
    /\ UNCHANGED <<rows, call, csv, log, treeVars, api_calls, tuiState>>

\* for line_num, row_data in enumerate(reader, start=2)
ReadRow ==
    /\ pc = "rows"
    /\ Len(csv) < MaxRows
    /\ \E row_data \in DataRows :
          /\ csv' = Append(csv, row_data)
          /\ rows' = rows \o load_line(row_data)
          /\ log' = IF warns(row_data) THEN Append(log, Len(csv) + 2) ELSE log
    /\ UNCHANGED <<call, file_headers, pc, treeVars, api_calls, tuiState>>

\* return Table(table_name, headers, rows)
ReturnTable ==
    /\ pc = "rows"
    /\ pc' = "file_loaded"
    /\ UNCHANGED <<tableVars, treeVars, api_calls, tuiState>>

\* load: table = self._load_file(source); root_dir.add_table(table)
AddLoadedTable ==
    /\ pc = "file_loaded"
    /\ dirs' = add_table(dirs, 1, Table(1, file_headers, rows))
    /\ last' = Call("add_table", 1, [dir |-> 1, idx |-> Len(dirs[1].tables) + 1])
    /\ pc' = "loaded"
    /\ UNCHANGED <<tableVars, api_calls, loadStack, tuiLocals>>

\* load: except Exception: g_logger.error("Failed to load table ...");
\* the root is returned without the table
SkipFailedFile ==
    /\ pc = "file_error"
    /\ last' = Call("load_failed", 1, NoRef)
    /\ pc' = "loaded"
    /\ UNCHANGED <<tableVars, api_calls, treeVars, tuiLocals>>

NextLoad == ReadHeaders \/ ReadRow \/ ReturnTable \/ AddLoadedTable \/ SkipFailedFile

SpecLoad == InitLoad /\ [][NextLoad]_vars

----------------------------------------------------------------------------
(* Claims on models.py *)

InRange(i, v) == rows[i].range_start <= v /\ v <= rows[i].range_end

\* C1: Table.query(value) returns the first row, in stored order, whose
\* inclusive range contains value, also when several ranges overlap, and
\* None exactly when no row's range contains value.
C1_QueryFirstMatch ==
    call.op = "query" =>
        /\ (call.found = None) <=> (\A i \in 1..Len(rows) : ~InRange(i, call.value))
        /\ call.found # None =>
              /\ call.found \in 1..Len(rows)
              /\ InRange(call.found, call.value)
              /\ \A j \in 1..(call.found - 1) : ~InRange(j, call.value)

\* C1 witness: a query that two rows match returned the earlier of them,
\* and that row is not the last of the table.
C1_Witness ==
    /\ call.op = "query"
    /\ call.found # None
    /\ \E j \in (call.found + 1)..Len(rows) : InRange(j, call.value)

\* C2: for every row and every integer value, matches(value) holds iff
\* range_start <= value <= range_end; in particular range_start and
\* range_end themselves match, and range_start-1 and range_end+1 do not.
C2_MatchesIffInRange ==
    /\ call.op = "matches" => (call.hit <=> InRange(call.row, call.value))
    /\ \A i \in 1..Len(rows) :
          /\ matches(rows[i], rows[i].range_start)
          /\ matches(rows[i], rows[i].range_end)
          /\ ~matches(rows[i], rows[i].range_start - 1)
          /\ ~matches(rows[i], rows[i].range_end + 1)

\* C3: get_range_bounds returns (minimum range_start, maximum range_end)
\* over the rows of a non-empty table, and (0, 0) for a table with no rows.
C3_Bounds ==
    call.op = "bounds" =>
        IF Len(rows) = 0 THEN call.bounds = <<0, 0>>
        ELSE /\ \E i \in 1..Len(rows) : rows[i].range_start = call.bounds[1]
             /\ \A i \in 1..Len(rows) : call.bounds[1] <= rows[i].range_start
             /\ \E i \in 1..Len(rows) : rows[i].range_end = call.bounds[2]
             /\ \A i \in 1..Len(rows) : rows[i].range_end <= call.bounds[2]

\* C3 witness: bounds of a table whose minimum start and maximum end are
\* not in its first row.
C3_Witness ==
    /\ call.op = "bounds"
    /\ Len(rows) >= 2
    /\ call.bounds[1] < rows[1].range_start
    /\ call.bounds[2] > rows[1].range_end

----------------------------------------------------------------------------
(* CSVTableLoader.load, then run_tui on the tree it returns.               *)
(* Spec: the source is a directory (or is missing).                        *)
(* SpecFile: the source is one CSV file.                                   *)

Init ==
    /\ TableIdle
    /\ dirs = <<TableDirectory(RootName)>>
    /\ loadStack = <<>>
    /\ pc = "load"
    /\ TuiIdle

\* load: os.path.isfile(source), the file loads
LoadSourceFile ==
    /\ pc = "load"
    /\ \E item \in Names : dirs' = load_table(dirs, 1, item)
    /\ pc' = "loaded"
    /\ UNCHANGED <<tableVars, api_calls, loadStack, tuiState>>

\* load: os.path.isfile(source), _load_file raises: the error is logged
LoadSourceFileFails ==
    /\ pc = "load"
    /\ pc' = "loaded"
    /\ UNCHANGED <<tableVars, api_calls, treeVars, tuiState>>

\* load: the source is neither a file nor a directory: "Source not found"
\* is logged and the empty root_dir is returned
LoadSourceMissing ==
    /\ pc = "load"
    /\ pc' = "loaded"
    /\ last' = Call("source_not_found", 1, NoRef)
    /\ UNCHANGED <<tableVars, api_calls, treeVars, tuiLocals>>

\* main: no --path and an empty line at "Enter path ...": "if path:" is
\* skipped, so root_dir is unbound when "if not root_dir" reads it and
\* UnboundLocalError leaves main
MainNoPath ==
    /\ pc = "load"
    /\ pc' = "crashed"
    /\ last' = Call("no_path", 0, NoRef)
    /\ UNCHANGED <<tableVars, api_calls, treeVars, tuiLocals>>

\* load: os.path.isdir(source), _load_recursive(source, root_dir)
LoadSourceDir ==
    /\ pc = "load"
    /\ loadStack' = <<1>>
    /\ pc' = "walk"
    /\ UNCHANGED <<tableVars, api_calls, dirs, tuiState>>

Top == loadStack[Len(loadStack)]

Loaded == Len(dirs) - 1 + TotalTables

\* _load_recursive: the next item is a .csv file that loads
WalkFile ==
    /\ pc = "walk"
    /\ Loaded < MaxItems
    /\ \E item \in FreeFileNames(Top) : dirs' = load_table(dirs, Top, item)
    /\ last' = Call("add_table", Top, [dir |-> Top, idx |-> Len(dirs[Top].tables) + 1])
    /\ UNCHANGED <<tableVars, api_calls, loadStack, pc, tuiLocals>>

\* _load_recursive: the next item is a directory
WalkSubdir ==
    /\ pc = "walk"
    /\ Loaded < MaxItems
    /\ \E item \in FreeDirNames(Top) : dirs' = load_subdir(dirs, Top, item)
    /\ loadStack' = Append(loadStack, Len(dirs) + 1)
    /\ last' = Call("add_subdir", Top, [dir |-> Len(dirs) + 1, idx |-> 0])
    /\ UNCHANGED <<tableVars, api_calls, pc, tuiLocals>>

\* _load_recursive: os.listdir is exhausted, the call returns
WalkReturn ==
    /\ pc = "walk"
    /\ loadStack' = SubSeq(loadStack, 1, Len(loadStack) - 1)
    /\ pc' = IF Len(loadStack) = 1 THEN "loaded" ELSE "walk"
    /\ last' = NoEvent
    /\ UNCHANGED <<tableVars, api_calls, dirs, tuiLocals>>

\* bool(root_dir): a TableDirectory object is true whatever it holds (the
\* class defines neither __bool__ nor __len__)
bool_dir(d) == TRUE

\* main: "if not root_dir" prints "No tables loaded. Exiting." and returns;
\* otherwise the session starts on root_dir.
\* run_tui(stdscr, root_dir): the statements before the loop
StartTui ==
    /\ pc = "loaded"
    /\ IF ~bool_dir(dirs[1])
       THEN /\ pc' = "exited"
            /\ UNCHANGED <<current_dir, selected_idx, path_stack, logo_lines>>
       ELSE /\ current_dir' = 1
            /\ selected_idx' = 0
            /\ path_stack' = <<dirs[1].name>>
            /\ logo_lines' \in 0..MaxLogo
            /\ pc' = "render"
    /\ UNCHANGED <<tableVars, api_calls, treeVars, height, max_display_items, start_idx,
                   view_table, result_text, last, trail>>

\* run_tui: the loop body down to getch().  The header is drawn outside any
\* try, so a row past the screen raises curses.error out of run_tui.
RenderRec(frame) ==
    /\ pc = "render"
    /\ \E h \in Heights :
          /\ height' = h
          /\ selected_idx' = clamp(selected_idx, Len(items))
          /\ IF HeaderRow(logo_lines, h) >= h
             THEN /\ pc' = "crashed"
                  /\ max_display_items' = 0
                  /\ start_idx' = 0
             ELSE /\ max_display_items' = MaxDisplayItems(logo_lines, h)
                  /\ start_idx' = StartIdx(selected_idx', max_display_items')
                  /\ pc' = "input"
    /\ last' = IF frame THEN [last EXCEPT !.ev = "frame", !.key = last.ev]
                ELSE NoEvent
    /\ UNCHANGED <<tableVars, api_calls, treeVars, current_dir, path_stack, logo_lines,
                   view_table, result_text, trail>>

Render == RenderRec(FALSE)

SelectedFirst == items[1]

Selected == items[selected_idx + 1]

\* The key handled, with the state it was pressed in
Ev(e, inp, back) ==
    [ev |-> e, cur |-> current_dir, sel |-> selected_idx, path |-> path_stack,
     n |-> Len(items), obj |-> IF items = <<>> THEN NoRef ELSE Selected.obj,
     input |-> inp, back |-> back, key |-> "none", start |-> 0, page |-> 0]

\* The same; frame says whether the window of the frame the key was
\* pressed in, start_idx and max_display_items, is kept with it
Rec(frame, e, back) ==
    IF frame
    THEN [Ev(e, <<>>, back) EXCEPT !.start = start_idx, !.page = max_display_items]
    ELSE Ev(e, <<>>, back)

\* height, max_display_items and start_idx are assigned afresh by the next
\* frame before anything reads them: the key handlers leave them dead
FrameOver == height' = 0 /\ max_display_items' = 0 /\ start_idx' = 0

\* key == curses.KEY_UP
KeyUpRec(frame) ==
    /\ pc = "input"
    /\ selected_idx' = move_up(selected_idx)
    /\ last' = Rec(frame, "up", <<>>)
    /\ pc' = "render"
    /\ FrameOver
    /\ UNCHANGED <<tableVars, api_calls, treeVars, current_dir, path_stack, logo_lines,
                   view_table, result_text, trail>>

\* key == curses.KEY_DOWN
KeyDownRec(frame) ==
    /\ pc = "input"
    /\ selected_idx' = move_down(selected_idx, Len(items))
    /\ last' = Rec(frame, "down", <<>>)
    /\ pc' = "render"
    /\ FrameOver
    /\ UNCHANGED <<tableVars, api_calls, treeVars, current_dir, path_stack, logo_lines,
                   view_table, result_text, trail>>

KeyUp == KeyUpRec(FALSE)

KeyDown == KeyDownRec(FALSE)

\* key == ord('q'): break
KeyQuit ==
    /\ pc = "input"
    /\ last' = Ev("quit", <<>>, <<>>)
    /\ pc' = "exited"
    /\ FrameOver
    /\ UNCHANGED <<tableVars, api_calls, treeVars, current_dir, selected_idx, path_stack,
                   logo_lines, view_table, result_text, trail>>

\* any other key: no branch is taken
KeyOther ==
    /\ pc = "input"
    /\ last' = Ev("other", <<>>, <<>>)
    /\ pc' = "render"
    /\ FrameOver
    /\ UNCHANGED <<tableVars, api_calls, treeVars, current_dir, selected_idx, path_stack,
                   logo_lines, view_table, result_text, trail>>

\* key == ord('d'): dump_table_view(stdscr, obj) when a table is selected.
\* dump_table_view draws rows 0 and 2 outside any try, then waits in getch().
KeyDump ==
    /\ pc = "input"
    /\ last' = Ev("dump", <<>>, <<>>)
    /\ IF items # <<>> /\ Selected.type = "TABLE"
       THEN /\ view_table' = Selected.obj
            /\ pc' \in {IF h < 3 THEN "crashed" ELSE "dump" : h \in Heights}
       ELSE /\ pc' = "render"
            /\ UNCHANGED view_table
    /\ FrameOver
    /\ UNCHANGED <<tableVars, api_calls, treeVars, current_dir, selected_idx, path_stack,
                   logo_lines, result_text, trail>>

DumpKeyToTop ==
    /\ pc = "dump"
    /\ \E key \in {"q", " "} : last' = Ev("dump_key", <<key>>, <<>>)
    /\ view_table' = NoRef
    /\ selected_idx' = 0
    /\ pc' = "render"
    /\ UNCHANGED <<tableVars, api_calls, treeVars, current_dir, path_stack,
                   logo_lines, height, max_display_items, start_idx, result_text,
                   trail>>

DumpKeyClearsRows ==
    /\ pc = "dump"
    /\ \E key \in {"q", " "} : last' = Ev("dump_key", <<key>>, <<>>)
    /\ dirs' = [dirs EXCEPT ![view_table.dir].tables[view_table.idx].rows = <<>>]
    /\ view_table' = NoRef
    /\ pc' = "render"
    /\ UNCHANGED <<tableVars, api_calls, loadStack, current_dir, selected_idx, path_stack,
                   logo_lines, height, max_display_items, start_idx, result_text,
                   trail>>

\* dump_table_view: getch() returns, and so does the view, whatever the key
\* (the quit key 'q' or any other)
DumpKey ==
    /\ pc = "dump"
    /\ \E key \in {"q", " "} : last' = Ev("dump_key", <<key>>, <<>>)
    /\ view_table' = NoRef
    /\ pc' = "render"
    /\ UNCHANGED <<tableVars, api_calls, treeVars, current_dir, selected_idx, path_stack,
                   logo_lines, height, max_display_items, start_idx, result_text,
                   trail>>

\* key == '\n' or KEY_ENTER with no entry: if items is false
EnterNothing ==
    /\ pc = "input"
    /\ items = <<>>
    /\ last' = Ev("enter_none", <<>>, <<>>)
    /\ pc' = "render"
    /\ FrameOver
    /\ UNCHANGED <<tableVars, api_calls, treeVars, current_dir, selected_idx, path_stack,
                   logo_lines, view_table, result_text, trail>>

\* Enter on "..": go up when current_dir.parent is set
EnterParentRec(frame) ==
    /\ pc = "input"
    /\ items # <<>>
    /\ Selected.type = "DIR_UP"
    /\ IF dirs[current_dir].parent # None
       THEN /\ current_dir' = go_up(dirs, current_dir, path_stack).dir
            /\ path_stack' = go_up(dirs, current_dir, path_stack).path
            /\ selected_idx' = 0
            /\ trail' = SubSeq(trail, 1, Len(trail) - 1)
            /\ last' = Rec(frame, "enter_up",
                           IF trail = <<>> THEN <<>> ELSE <<trail[Len(trail)]>>)
       ELSE /\ last' = Rec(frame, "enter_up", <<>>)
            /\ UNCHANGED <<current_dir, path_stack, selected_idx, trail>>
    /\ pc' = "render"
    /\ FrameOver
    /\ UNCHANGED <<tableVars, api_calls, treeVars, logo_lines, view_table, result_text>>

\* Enter on a directory: go down
EnterSubdirRec(frame) ==
    /\ pc = "input"
    /\ items # <<>>
    /\ Selected.type = "DIR"
    /\ current_dir' = go_down(Selected, path_stack).dir
    /\ path_stack' = go_down(Selected, path_stack).path
    /\ selected_idx' = 0
    /\ trail' = Append(trail, [cur |-> current_dir, path |-> path_stack])
    /\ last' = Rec(frame, "enter_dir", <<>>)
    /\ pc' = "render"
    /\ FrameOver
    /\ UNCHANGED <<tableVars, api_calls, treeVars, logo_lines, view_table, result_text>>

EnterParent == EnterParentRec(FALSE)

EnterSubdir == EnterSubdirRec(FALSE)

\* query_table_view, the loop body down to getstr(): the title and the
\* prompt are drawn on rows 0 and 2 outside any try.  Nothing but the
\* drawing of the result reads this frame's height, so a frame that is
\* drawn leaves the height to be drawn where the result is.
QueryFrame == pc' \in {IF h < 3 THEN "crashed" ELSE "query" : h \in Heights}

\* Enter on a table: query_table_view(stdscr, obj)
EnterTable ==
    /\ pc = "input"
    /\ items # <<>>
    /\ Selected.type = "TABLE"
    /\ view_table' = Selected.obj
    /\ result_text' = NoResult
    /\ last' = Ev("enter_table", <<>>, <<>>)
    /\ QueryFrame
    /\ FrameOver
    /\ UNCHANGED <<tableVars, api_calls, treeVars, current_dir, selected_idx, path_stack,
                   logo_lines, trail>>

is_quit_or_back(user_input) == lower(user_input) = <<"q">> \/ lower(user_input) = <<"b">>

\* if user_input.lower() == 'q': break
is_quit(user_input) == lower(user_input) = <<"q">>

\* query_table_view: getstr() returns a line.  "q" leaves the loop and the
\* view; anything else is looked up and shown from row 4 on, outside any
\* try, before the wait for a key.  lines are the lines that can be typed,
\* keep says whether the line is kept in last.
QueryLine(lines, keep) ==
    /\ pc = "query"
    /\ \E inp \in lines :
          LET user_input == strip(inp)
              result == query_result(TableOf(view_table), user_input)
          IN /\ last' = Ev("query_input", IF keep THEN inp ELSE <<>>, <<>>)
             /\ IF is_quit(user_input)
                THEN /\ pc' = "render"
                     /\ view_table' = NoRef
                     /\ result_text' = NoResult
                ELSE /\ result_text' = result
                     /\ pc' \in {IF 4 + ResultLines(result) > h
                                   THEN "crashed" ELSE "query_key" :
                                   h \in 3..MaxHeight}
                     /\ UNCHANGED view_table
    /\ UNCHANGED <<tableVars, api_calls, treeVars, current_dir, selected_idx, path_stack,
                   logo_lines, height, max_display_items, start_idx, trail>>

\* Spec: a line of at most one character, not kept
QueryInput == QueryLine({inp \in Inputs : Len(inp) <= 1}, FALSE)

\* SpecFile: any line, kept
QueryInputFile == QueryLine(Inputs, TRUE)

\* query_table_view: getstr() raises curses.error: continue
QueryInputError ==
    /\ pc = "query"
    /\ last' = Ev("query_error", <<>>, <<>>)
    /\ QueryFrame
    /\ UNCHANGED <<tableVars, api_calls, treeVars, current_dir, selected_idx, path_stack,
                   logo_lines, height, max_display_items, start_idx, view_table,
                   result_text, trail>>

\* query_table_view: "Press any key to continue...", then the next frame
QueryKey ==
    /\ pc = "query_key"
    /\ last' = Ev("query_key", <<>>, <<>>)
    /\ QueryFrame
    /\ UNCHANGED <<tableVars, api_calls, treeVars, current_dir, selected_idx, path_stack,
                   logo_lines, height, max_display_items, start_idx, view_table,
                   result_text, trail>>

Next ==
    \/ LoadSourceMissing \/ LoadSourceDir \/ MainNoPath
    \/ WalkFile \/ WalkSubdir \/ WalkReturn
    \/ StartTui \/ Render
    \/ KeyUp \/ KeyDown \/ KeyQuit \/ KeyOther \/ KeyDump \/ DumpKey
    \/ EnterNothing \/ EnterParent \/ EnterSubdir \/ EnterTable
    \/ QueryInput \/ QueryInputError \/ QueryKey

Spec == Init /\ [][Next]_vars

NextFile ==
    \/ LoadSourceFile \/ LoadSourceFileFails
    \/ StartTui \/ Render
    \/ KeyUp \/ KeyDown \/ KeyQuit \/ KeyOther \/ KeyDump \/ DumpKey
    \/ EnterNothing \/ EnterTable
    \/ QueryInputFile \/ QueryInputError \/ QueryKey

SpecFile == Init /\ [][NextFile]_vars

\* ---------------------------------------------------------------------
\* SpecScroll: the browser over one loaded directory tree, each frame
\* keeping the key that led to it and the window of the frame before
\* ---------------------------------------------------------------------

\* What load builds from  root/a/b/, root/a/c/, root/a/t.csv : the entry
\* list of a is  "..", b, c, t
SampleTree ==
    load_table(
        load_subdir(
            load_subdir(
                load_subdir(<<TableDirectory(RootName)>>, 1, 1),
                2, 1),
            2, 2),
        2, 1)

InitScroll ==
    /\ TableIdle
    /\ dirs = SampleTree
    /\ loadStack = <<>>
    /\ pc = "loaded"
    /\ TuiIdle

RenderScroll == RenderRec(TRUE)

KeyUpScroll == KeyUpRec(TRUE)

KeyDownScroll == KeyDownRec(TRUE)

EnterParentScroll == EnterParentRec(TRUE)

EnterSubdirScroll == EnterSubdirRec(TRUE)

NextScroll ==
    \/ StartTui \/ RenderScroll
    \/ KeyUpScroll \/ KeyDownScroll \/ KeyQuit
    \/ EnterParentScroll \/ EnterSubdirScroll

SpecScroll == InitScroll /\ [][NextScroll]_vars

----------------------------------------------------------------------------
(* SpecApi: TableDirectory objects are constructed and add_subdir is       *)
(* called on any of them with any of them, in any order.                   *)

InitApi ==
    /\ TableIdle
    /\ dirs = <<>>
    /\ loadStack = <<>>
    /\ pc = "api"
    /\ TuiIdle

\* TableDirectory(name)
ApiNew ==
    /\ pc = "api"
    /\ Len(dirs) < MaxItems
    /\ \E name \in Names : dirs' = Append(dirs, TableDirectory(name))
    /\ last' = Call("new", 0, [dir |-> Len(dirs) + 1, idx |-> 0])
    /\ UNCHANGED <<tableVars, api_calls, loadStack, pc, tuiLocals>>

\* p.add_subdir(c)
ApiAddSubdir ==
    /\ pc = "api"
    /\ api_calls < MaxCalls
    /\ \E p \in 1..Len(dirs), c \in 1..Len(dirs) :
          /\ dirs' = add_subdir(dirs, p, c)
          /\ last' = Call("add_subdir", p, [dir |-> c, idx |-> 0])
    /\ api_calls' = api_calls + 1
    /\ UNCHANGED <<tableVars, loadStack, pc, tuiLocals>>

NextApi == ApiNew \/ ApiAddSubdir

SpecApi == InitApi /\ [][NextApi]_vars

----------------------------------------------------------------------------
(* Claims on the session: run_tui on a loaded tree *)

\* The frame is on screen and run_tui waits for a key
Browsing == pc = "input"

\* C4: scroll invariant.  In every frame the loop draws, at every screen
\* height, start_idx <= selected_idx < start_idx + max_display_items.
C4_ScrollInvariant ==
    Browsing =>
        /\ start_idx <= selected_idx
        /\ selected_idx < start_idx + max_display_items

\* The scroll window holds the selection in every frame that has room for
\* at least one entry.
ScrollWindowWithRoom ==
    (Browsing /\ max_display_items >= 1) =>
        /\ start_idx <= selected_idx
        /\ selected_idx < start_idx + max_display_items

\* run_tui is running: its locals exist
InSession == pc \in {"render", "input", "dump", "query", "query_key"}

\* C5: selection invariant.  In every state of the session, right after a
\* key included, selected_idx is an index of the entry list of current_dir
\* when that list is non-empty, and 0 when it is empty.
C5_SelectionInvariant ==
    InSession =>
        IF items = <<>> THEN selected_idx = 0
        ELSE selected_idx \in 0..(Len(items) - 1)

EntriesOfType(its, type) == {k \in DOMAIN its : its[k].type = type}

\* C6: the entry list of every directory is ".." first iff the directory
\* has a parent, then every subdirectory once, by name ascending, then
\* every table once, in the order of current_dir.tables.
C6_EntryOrder ==
    \A d \in 1..Len(dirs) :
        LET its == get_items_for_dir(dirs, d)
            P == EntriesOfType(its, "DIR_UP")
            S == EntriesOfType(its, "DIR")
            T == EntriesOfType(its, "TABLE")
        IN /\ P \cup S \cup T = DOMAIN its
           /\ IF dirs[d].parent # None
              THEN P = {1} /\ its[1].name = DotDot /\ its[1].obj.dir = dirs[d].parent
              ELSE P = {}
           /\ \A s \in S : (\A p \in P : p < s) /\ (\A t \in T : s < t)
           /\ \A j \in S, k \in S : j < k => its[j].name < its[k].name
           /\ {its[k].name : k \in S} = SubdirKeys(dirs, d)
           /\ \A k \in S : its[k].obj.dir = dirs[d].subdirs[its[k].name]
           /\ Cardinality(T) = Len(dirs[d].tables)
           /\ \A k \in T :
                 LET i == k - Cardinality(P) - Cardinality(S)
                 IN /\ its[k].obj = [dir |-> d, idx |-> i]
                    /\ its[k].name = dirs[d].tables[i].name

\* C6 witness: the list on screen is "..", then two subdirectories of which
\* the one listed first was created last.
C6_Witness ==
    /\ Browsing
    /\ Len(items) = 3
    /\ items[1].type = "DIR_UP"
    /\ items[2].type = "DIR"
    /\ items[3].type = "DIR"
    /\ items[2].obj.dir > items[3].obj.dir

\* C7: right after parent.add_subdir(child), parent.subdirs[child.name] is
\* child and child.parent is parent.
C7_AddSubdirSymmetric ==
    last.ev = "add_subdir" =>
        /\ dirs[last.cur].subdirs[dirs[last.obj.dir].name] = last.obj.dir
        /\ dirs[last.obj.dir].parent = last.cur

\* C7 witness: add_subdir has just been called on two different
\* directories, and it was not the first call.
C7_Witness ==
    /\ last.ev = "add_subdir"
    /\ last.cur # last.obj.dir
    /\ api_calls >= 2

\* The k-th ancestor of directory c, None when there is none
RECURSIVE ParentAt(_, _, _)
ParentAt(ds, c, k) ==
    IF c = None \/ k = 0 THEN c ELSE ParentAt(ds, ds[c].parent, k - 1)

\* C8: after any sequence of add_subdir calls the directories form a tree:
\* no cycles, and a directory has a parent exactly when that parent's
\* subdirs holds it under its own name.
C8_TreeInvariant ==
    /\ \A c \in 1..Len(dirs) : ParentAt(dirs, c, Len(dirs)) = None
    /\ \A c \in 1..Len(dirs) :
          dirs[c].parent # None => dirs[dirs[c].parent].subdirs[dirs[c].name] = c
    /\ \A p \in 1..Len(dirs), n \in Names :
          dirs[p].subdirs[n] # None =>
              /\ dirs[dirs[p].subdirs[n]].parent = p
              /\ dirs[dirs[p].subdirs[n]].name = n

\* C9: Enter on a subdirectory and then Enter on its ".." leave current_dir
\* and path_stack as they were before the first of the two.
C9_DownUpRoundTrip ==
    (last.ev = "enter_up" /\ last.back # <<>>) =>
        /\ current_dir = last.back[1].cur
        /\ path_stack = last.back[1].path

\* C9 witness: ".." has just led back to a directory below the root.
C9_Witness ==
    /\ last.ev = "enter_up"
    /\ last.back # <<>>
    /\ last.back[1].cur # 1
    /\ Len(last.back[1].path) = 2

\* The line is "b" or "B" with nothing but blanks around it
TypedBack(inp) ==
    \E i \in DOMAIN inp :
        /\ inp[i] \in {"b", "B"}
        /\ \A j \in DOMAIN inp \ {i} : inp[j] = " "

\* C10: a line that is "b" after strip() and lower() ends query_table_view
\* and the next frame is the browser's, with current_dir, path_stack and
\* selected_idx as they were.
C10_BackLeavesQuery ==
    (last.ev = "query_input" /\ TypedBack(last.input) /\ pc # "crashed") =>
        /\ pc = "render"
        /\ current_dir = last.cur
        /\ path_stack = last.path
        /\ selected_idx = last.sel

\* The line is "q" or "Q" with nothing but blanks around it
TypedQuit(inp) ==
    \E i \in DOMAIN inp :
        /\ inp[i] \in {"q", "Q"}
        /\ \A j \in DOMAIN inp \ {i} : inp[j] = " "

\* C11: a line that is "q" after strip() and lower() ends the whole
\* interaction: the program is in EXITED, not back in the browser.
C11_QuitLineExits ==
    (last.ev = "query_input" /\ TypedQuit(last.input)) => pc = "exited"

\* The line is neither of the sentinels "q" and "b" nor an integer
TypedInvalid(inp) == ~TypedQuit(inp) /\ ~TypedBack(inp) /\ ~IsInt(strip(inp))

\* The notice is on screen over the same table, and nothing else moved
InvalidNoticeShown ==
    /\ pc = "query_key"
    /\ result_text.kind = "invalid"
    /\ view_table = last.obj
    /\ current_dir = last.cur
    /\ path_stack = last.path
    /\ selected_idx = last.sel

\* C12: a line that is neither a sentinel nor an integer shows the
\* "Invalid input. Integers only." notice and the session stays on the same
\* table, with current_dir and selected_idx unchanged.
C12_InvalidInputReprompts ==
    (last.ev = "query_input" /\ TypedInvalid(last.input)) => InvalidNoticeShown

\* The same, for the inputs whose notice the screen has a row for; and the
\* key that follows the notice leads to the prompt of the same table.
InvalidInputRepromptsWithRoom ==
    /\ (last.ev = "query_input" /\ TypedInvalid(last.input) /\ pc # "crashed")
          => InvalidNoticeShown
    /\ (last.ev = "query_key" /\ pc # "crashed")
          => pc = "query" /\ view_table = last.obj

\* C13: the quit key 'q' pressed in the browser or in the dump view ends
\* the interaction: the program is in EXITED.
C13_QuitKeyExits ==
    (last.ev = "quit" \/ (last.ev = "dump_key" /\ last.input = <<"q">>))
        => pc = "exited"

\* The quit key in the browser does exit, and nothing leaves EXITED.
QuitKeyExitsBrowser == last.ev = "quit" => pc = "exited"
ExitedIsTerminal == [][pc = "exited" => pc' = "exited"]_vars

\* C14: every row _load_file has put into the table has
\* range_start <= range_end; a row whose range column has start greater
\* than end never becomes a row of the table.
C14_LoadedRowsOrdered ==
    \A i \in 1..Len(rows) : rows[i].range_start <= rows[i].range_end

\* C15: when the source path does not exist, or no path is given, the
\* program reports "No tables loaded" and returns: the session never starts.
C15_MissingSourceIsFatal ==
    last.ev \in {"source_not_found", "no_path"} => pc \in {"loaded", "exited"}

\* A range column that reads as a number or as two numbers around one
\* minus sign, blanks around it aside
ParsesAsRange(t) ==
    LET u == strip(t)
    IN \/ IsDigits(u)
       \/ \E k \in 1..Len(u) :
             /\ u[k] = "-"
             /\ IsDigits(SubSeq(u, 1, k - 1))
             /\ IsDigits(SubSeq(u, k + 1, Len(u)))

WellFormedRow(row_data) == row_data # <<>> /\ ParsesAsRange(row_data[1])

MalformedRow(row_data) == row_data # <<>> /\ ~ParsesAsRange(row_data[1])

\* The two numbers a well-formed range column stands for
RangeOf(t) ==
    LET u == strip(t)
    IN IF IsDigits(u) THEN <<DigitsVal(u), DigitsVal(u)>>
       ELSE LET k == CHOOSE k \in 1..Len(u) : u[k] = "-"
            IN <<DigitsVal(SubSeq(u, 1, k - 1)), DigitsVal(SubSeq(u, k + 1, Len(u)))>>

\* The line numbers of the malformed rows among the first n data rows (the
\* header is line 1)
RECURSIVE MalformedLines(_)
MalformedLines(n) ==
    IF n = 0 THEN <<>>
    ELSE MalformedLines(n - 1) \o (IF MalformedRow(csv[n]) THEN <<n + 1>> ELSE <<>>)

\* C16: a data row whose range column does not parse is skipped with a
\* warning and the file still loads: the table holds exactly the
\* well-formed rows read, in the order of the file.
C16_MalformedRowsSkipped ==
    LET kept == SelectSeq(csv, WellFormedRow)
    IN /\ csv # <<>> => pc \in {"rows", "file_loaded", "loaded"} /\ last.ev # "load_failed"
       /\ Len(rows) = Len(kept)
       /\ \A k \in 1..Len(kept) :
             /\ rows[k].range_start = RangeOf(kept[k][1])[1]
             /\ rows[k].range_end = RangeOf(kept[k][1])[2]
             /\ rows[k].content = Tail(kept[k])
       /\ log = MalformedLines(Len(csv))

\* C16 witness: a file has loaded whose second data row is malformed and
\* stands between two different well-formed rows.
C16_Witness ==
    /\ pc = "file_loaded"
    /\ Len(csv) = 3
    /\ WellFormedRow(csv[1]) /\ MalformedRow(csv[2]) /\ WellFormedRow(csv[3])
    /\ Len(rows) = 2
    /\ rows[1] # rows[2]
    /\ log = <<3>>

\* C17: every row of a loaded table has as many content cells as the
\* table has headers, less the one header of the range column.
C17_ContentMatchesHeaders ==
    \A i \in 1..Len(rows) : Len(rows[i].content) = Len(file_headers) - 1

\* ---------------------------------------------------------------------
\* Claims on directory navigation and scrolling
\* ---------------------------------------------------------------------

\* The frame drawn right after the key  k  was handled
FrameAfter(k) == Browsing /\ last.ev = "frame" /\ last.key = k

\* C18: in the frame that follows Enter on a subdirectory entry,
\* current_dir is that subdirectory, path_stack is the path before the key
\* with the subdirectory's name appended, selected_idx and the scroll
\* offset start_idx are 0, and the tree is the loaded one.
C18_EnterSubdirDescends ==
    FrameAfter("enter_dir") =>
        /\ current_dir = last.obj.dir
        /\ dirs[current_dir].parent = last.cur
        /\ path_stack = Append(last.path, dirs[current_dir].name)
        /\ selected_idx = 0
        /\ start_idx = 0
        /\ dirs = SampleTree

\* The same in every frame that has room for at least one entry
EnterSubdirDescendsWithRoom ==
    (FrameAfter("enter_dir") /\ max_display_items >= 1) =>
        /\ current_dir = last.obj.dir
        /\ dirs[current_dir].parent = last.cur
        /\ path_stack = Append(last.path, dirs[current_dir].name)
        /\ selected_idx = 0
        /\ start_idx = 0
        /\ dirs = SampleTree

\* Right after Enter on a subdirectory entry, in every loaded tree:
\* the directory, the path and the selection
EnterSubdirMoves ==
    (pc = "render" /\ last.ev = "enter_dir") =>
        /\ current_dir = last.obj.dir
        /\ dirs[current_dir].parent = last.cur
        /\ path_stack = Append(last.path, dirs[current_dir].name)
        /\ selected_idx = 0

\* No step of the session changes the tree
TreeUnchangedInSession == [][InSession => dirs' = dirs]_vars

\* C19: in the frame that follows Enter on ".." in a directory that has
\* a parent, current_dir is that parent, path_stack has lost its last
\* name, and selected_idx and the scroll offset start_idx are 0; the list
\* of the root has no ".." and current_dir is always a directory of the
\* tree.
C19_EnterParentAscends ==
    /\ (FrameAfter("enter_up") /\ dirs[last.cur].parent # None) =>
           /\ current_dir = dirs[last.cur].parent
           /\ path_stack = SubSeq(last.path, 1, Len(last.path) - 1)
           /\ selected_idx = 0
           /\ start_idx = 0
    /\ InSession =>
           /\ current_dir \in 1..Len(dirs)
           /\ current_dir = 1 => \A k \in 1..Len(items) : items[k].type # "DIR_UP"

\* The same in every frame that has room for at least one entry
EnterParentAscendsWithRoom ==
    /\ (FrameAfter("enter_up") /\ dirs[last.cur].parent # None
            /\ max_display_items >= 1) =>
           /\ current_dir = dirs[last.cur].parent
           /\ path_stack = SubSeq(last.path, 1, Len(last.path) - 1)
           /\ selected_idx = 0
           /\ start_idx = 0
    /\ InSession =>
           /\ current_dir \in 1..Len(dirs)
           /\ current_dir = 1 => \A k \in 1..Len(items) : items[k].type # "DIR_UP"

\* Right after Enter on "..", in every loaded tree: the directory, the
\* path and the selection; and current_dir never leaves the tree
EnterParentMoves ==
    /\ (pc = "render" /\ last.ev = "enter_up") =>
           /\ dirs[last.cur].parent # None
           /\ current_dir = dirs[last.cur].parent
           /\ path_stack = SubSeq(last.path, 1, Len(last.path) - 1)
           /\ selected_idx = 0
    /\ InSession =>
           /\ current_dir \in 1..Len(dirs)
           /\ dirs[1].parent = None
           /\ current_dir = 1 => \A k \in 1..Len(items) : items[k].type # "DIR_UP"

\* The selection lies in the window of the frame the key was pressed in
InPreviousWindow ==
    last.start <= selected_idx /\ selected_idx < last.start + last.page

\* C20: scrolling is minimal.  In the frame that follows a move up or a
\* move down, drawn with the same page size as the frame before, of at
\* least one entry: start_idx is the start_idx of the frame before when
\* selected_idx lies in that frame's window, selected_idx when it lies
\* above it, and selected_idx - max_display_items + 1 when it lies below.
C20_MinimalScroll ==
    ((FrameAfter("up") \/ FrameAfter("down"))
            /\ max_display_items = last.page /\ last.page >= 1) =>
        IF InPreviousWindow THEN start_idx = last.start
        ELSE IF selected_idx < last.start THEN start_idx = selected_idx
        ELSE start_idx = selected_idx - max_display_items + 1

\* What the code does instead: the window is a function of the selection
\* and the page size alone, whatever the frame before showed
ScrollFromSelectionOnly ==
    Browsing => start_idx = StartIdx(selected_idx, max_display_items)

\* After a move down the window is the one C20 describes
MinimalScrollDown ==
    (FrameAfter("down") /\ max_display_items = last.page /\ last.page >= 1) =>
        IF InPreviousWindow THEN start_idx = last.start
        ELSE start_idx = selected_idx - max_display_items + 1

\* ---------------------------------------------------------------------
\* Claims on the session state and its views
\* ---------------------------------------------------------------------

\* The names of the directories from the root down to d
RECURSIVE PathTo(_, _)
PathTo(ds, d) ==
    IF ds[d].parent = None THEN <<ds[d].name>>
    ELSE Append(PathTo(ds, ds[d].parent), ds[d].name)

\* C21: path-stack invariant.  In every frame of the browser, for every
\* loaded tree, current_dir is a directory of the tree, and path_stack is
\* non-empty and is the sequence of the names from the root to current_dir.
C21_PathStackInvariant ==
    Browsing =>
        /\ current_dir \in 1..Len(dirs)
        /\ path_stack # <<>>
        /\ path_stack = PathTo(dirs, current_dir)
        /\ path_stack[1] = dirs[1].name

\* A frame two levels below the root
C21_Witness ==
    /\ Browsing
    /\ Len(path_stack) = 3
    /\ dirs[current_dir].parent # None
    /\ dirs[dirs[current_dir].parent].parent = 1

\* The entry that was selected when the last key was pressed
SelectedAt == get_items_for_dir(dirs, last.cur)[last.sel + 1]

TableSelectedAt == last.n > 0 /\ SelectedAt.type = "TABLE"

C22_WitnessNoTable ==
    /\ last.ev = "dump"
    /\ last.n > 0
    /\ ~TableSelectedAt
    /\ pc = "render"

\* C23: right after a move up, selected_idx is one less than before, or
\* still 0 if it was 0; right after a move down it is one more than
\* before, or unchanged if it was the index of the last entry; a move
\* that cannot go further changes nothing, and neither move changes
\* current_dir or path_stack.
C23_MovesClamped ==
    /\ last.ev = "up" =>
           /\ selected_idx = IF last.sel = 0 THEN 0 ELSE last.sel - 1
           /\ current_dir = last.cur /\ path_stack = last.path
    /\ last.ev = "down" =>
           /\ selected_idx = IF last.sel + 1 < last.n THEN last.sel + 1 ELSE last.sel
           /\ current_dir = last.cur /\ path_stack = last.path

\* The same for a list with at least one entry
MovesClampedNonEmpty ==
    /\ (last.ev = "up" /\ last.n > 0) =>
           /\ selected_idx = IF last.sel = 0 THEN 0 ELSE last.sel - 1
           /\ current_dir = last.cur /\ path_stack = last.path
    /\ (last.ev = "down" /\ last.n > 0) =>
           /\ selected_idx = IF last.sel + 1 < last.n THEN last.sel + 1 ELSE last.sel
           /\ current_dir = last.cur /\ path_stack = last.path
    /\ (last.ev = "up" /\ last.n = 0) =>
           selected_idx = 0 /\ current_dir = last.cur /\ path_stack = last.path
    /\ (last.ev = "down" /\ last.n = 0) =>
           current_dir = last.cur /\ path_stack = last.path

\* C24: the tree is read-only once it is handed to the session.  No step
\* of the browser, of the dump view or of the query view changes dirs:
\* no directory's tables, subdirs or parent, no table's headers or rows.
C24_TreeReadOnly == [][(pc = "loaded" \/ InSession) => dirs' = dirs]_vars

\* A query answered in a directory below the root
C24_Witness ==
    /\ pc = "query_key"
    /\ trail # <<>>
    /\ current_dir # 1
    /\ TableOf(view_table).rows # <<>>

\* The line is an integer, and some row of the table on view matches it
TypedInteger(inp) == ~TypedQuit(inp) /\ IsInt(strip(inp))

MatchedBy(rs, value) == \E i \in 1..Len(rs) : matches(rs[i], value)

\* The answer to the integer typed is on screen over the same table: the
\* "No match found." notice when no row matches; the headers, the divider
\* and the row Table.query returns when one does; and nothing else moved
IntegerAnswerShown ==
    LET rs == TableOf(view_table).rows
        value == IntVal(strip(last.input))
    IN /\ pc = "query_key"
       /\ view_table = last.obj
       /\ current_dir = last.cur
       /\ path_stack = last.path
       /\ selected_idx = last.sel
       /\ IF MatchedBy(rs, value)
          THEN /\ result_text.kind = "row"
               /\ result_text.row = query(rs, value)
               /\ ResultLines(result_text) = 3
          ELSE /\ result_text.kind = "nomatch"
               /\ ResultLines(result_text) = 1

IntegerQueryAnsweredWithRoom ==
    /\ (last.ev = "query_input" /\ TypedInteger(last.input) /\ pc # "crashed")
          => IntegerAnswerShown
    /\ (last.ev = "query_key" /\ pc = "query") => view_table = last.obj

\* Both answers are reached: a match and no match
IntegerAnswersReached ==
    /\ last.ev = "query_input"
    /\ TypedInteger(last.input)
    /\ pc = "query_key"
    /\ result_text.kind = "nomatch"
    /\ IntVal(strip(last.input)) > 3

\* C26: while the dump view is open, current_dir, path_stack and
\* selected_idx are those the dump key was pressed with; any key closes
\* the view and hands control back to the browser loop with the same
\* three values, and the frame drawn next keeps that selection.
C26_DumpReturnsUnchanged ==
    /\ pc = "dump" =>
           /\ last.ev = "dump"
           /\ current_dir = last.cur
           /\ path_stack = last.path
           /\ selected_idx = last.sel
    /\ last.ev = "dump_key" =>
           /\ pc = "render"
           /\ view_table = NoRef
           /\ current_dir = last.cur
           /\ path_stack = last.path
           /\ selected_idx = last.sel
           /\ clamp(selected_idx, Len(items)) = selected_idx

\* A dump closed on an entry that is not the first, below the root
C26_Witness ==
    /\ last.ev = "dump_key"
    /\ last.sel >= 1
    /\ current_dir # 1
    /\ pc = "render"

\* C27: _load_file goes on to the data rows only with a header row of at
\* least two columns, and otherwise raises before any row is read; load
\* adds the table of a file that loaded and no table for a file that
\* raised, so every table of the tree has at least two headers.
C27_HeaderRowRequired ==
    /\ pc \in {"rows", "file_loaded"} => Len(file_headers) >= 2
    /\ pc = "file_error" => Len(file_headers) < 2 /\ rows = <<>> /\ csv = <<>>
    /\ last.ev = "load_failed" =>
           /\ Len(file_headers) < 2
           /\ dirs[1].tables = <<>>
    /\ last.ev = "add_table" =>
           /\ Len(dirs[1].tables) = 1
           /\ dirs[1].tables[1].headers = file_headers
           /\ dirs[1].tables[1].rows = rows
    /\ \A d \in 1..Len(dirs) : \A i \in 1..Len(dirs[d].tables) :
           Len(dirs[d].tables[i].headers) >= 2

\* A file whose header row has one column was skipped by load
C27_Witness ==
    /\ last.ev = "load_failed"
    /\ Len(file_headers) = 1
    /\ pc = "loaded"
    /\ dirs[1].tables = <<>>

\* Every row of the table has range_start <= range_end
RowsOrdered == \A i \in 1..Len(rows) : rows[i].range_start <= rows[i].range_end

\* C28: whenever Table.query(value) returns a row of a table whose rows
\* all have range_start <= range_end, value lies within the pair
\* get_range_bounds() returns for that table.
C28_MatchWithinBounds ==
    (call.op = "query" /\ call.found # None /\ RowsOrdered) =>
        /\ get_range_bounds(rows)[1] <= call.value
        /\ call.value <= get_range_bounds(rows)[2]

\* A query matched by a row that is not the first, in a table of several
\* rows; and a query without a match
C28_Witness ==
    /\ call.op = "query"
    /\ call.found # None
    /\ RowsOrdered
    /\ Len(rows) >= 2
    /\ ~matches(rows[1], call.value)
    /\ get_range_bounds(rows)[1] < get_range_bounds(rows)[2]

C28_WitnessNoMatch ==
    /\ call.op = "query"
    /\ call.found = None
    /\ RowsOrdered
    /\ rows # <<>>

\* ---------------------------------------------------------------------
\* SpecRange: one TableRow is displayed as the views display it and the
\* text is handed to _parse_range; sample texts are parsed as well
\* ---------------------------------------------------------------------

\* str(n) for n >= 0
RECURSIVE str_digits(_)
str_digits(n) ==
    IF n < 10 THEN <<DigitOf(n)>> ELSE Append(str_digits(n \div 10), DigitOf(n % 10))

\* f"{n}": a minus sign before the digits of a negative number
str_int(n) == IF n < 0 THEN <<"-">> \o str_digits(0 - n) ELSE str_digits(n)

\* range_disp = f"{r_start}" if r_start == r_end else f"{r_start}-{r_end}"
range_disp(row) ==
    IF row.range_start = row.range_end THEN str_int(row.range_start)
    ELSE str_int(row.range_start) \o <<"-">> \o str_int(row.range_end)

RangeInts == (0 - MaxRange)..MaxRange

\* Texts handed to _parse_range as they are
TextSamples ==
    RangeSamples \cup {<<"1", "2">>, <<"1", "0", "-", "1", "2">>, <<"1", "-">>,
                       <<"1", "-", "x">>, <<"1", "-", "2", "-", "1">>, <<>>}

\* The result of the _parse_range call on text
Parsed(text) ==
    LET r == parse_range(text)
    IN [NoCall EXCEPT !.op = "parse", !.hit = r.ok, !.bounds = <<r.start, r.end>>]

InitRange ==
    /\ TableIdle /\ TreeIdle /\ TuiIdle
    /\ pc = "range"

\* TableRow(range_start, range_end, content) with range_start <= range_end
NewRow ==
    /\ pc = "range"
    /\ \E s \in RangeInts, e \in RangeInts :
          /\ s <= e
          /\ rows' = <<TableRow(s, e, <<>>)>>
    /\ pc' = "row"
    /\ UNCHANGED <<call, fileVars, treeVars, api_calls, tuiState>>

\* The views build the range column of the row
ShowRange ==
    /\ pc = "row"
    /\ csv' = <<<<range_disp(rows[1])>>>>
    /\ pc' = "shown"
    /\ UNCHANGED <<rows, call, file_headers, log, treeVars, api_calls, tuiState>>

\* _parse_range(range_str) on the text displayed
ParseShown ==
    /\ pc = "shown"
    /\ call' = Parsed(csv[1][1])
    /\ pc' = "parsed"
    /\ UNCHANGED <<rows, fileVars, treeVars, api_calls, tuiState>>

\* _parse_range(range_str) on a text of the samples
ParseText ==
    /\ pc = "range"
    /\ \E t \in TextSamples :
          /\ csv' = <<<<t>>>>
          /\ call' = Parsed(t)
    /\ pc' = "parsed_text"
    /\ UNCHANGED <<rows, file_headers, log, treeVars, api_calls, tuiState>>

NextRange == NewRow \/ ShowRange \/ ParseShown \/ ParseText

SpecRange == InitRange /\ [][NextRange]_vars

\* C29: the text a row with range_start <= range_end is displayed with,
\* negative ends included, is parsed by _parse_range back to
\* (range_start, range_end).
C29_RangeRoundTrip ==
    pc = "parsed" =>
        /\ call.hit
        /\ call.bounds = <<rows[1].range_start, rows[1].range_end>>

\* The round trip for the rows whose ends are not negative
RangeRoundTripNonNegative ==
    (pc = "parsed" /\ rows[1].range_start >= 0) =>
        /\ call.hit
        /\ call.bounds = <<rows[1].range_start, rows[1].range_end>>

\* A row with a negative end is displayed with a text that does not parse
NegativeRangeNotParsed ==
    (pc = "parsed" /\ rows[1].range_start < 0) => ~call.hit

\* Digits parse to (n, n), digits-digits to (a, b), anything else raises
\* ValueError
ParseOfPlainTexts ==
    pc = "parsed_text" =>
        LET t == csv[1][1]
        IN IF ParsesAsRange(t)
           THEN call.hit /\ call.bounds = RangeOf(t)
           ELSE ~call.hit

\* ---------------------------------------------------------------------
\* SpecCli: the plain loop of main.py (browse_directory, select_item,
\* query_table) on one loaded tree
\* ---------------------------------------------------------------------

\* The characters typed at "Select an item (number) or 'q' to quit: "
CliChars == {" ", "q", "Q", "-", "0", "1", "2", "4"}

CliInputs == UNION {[1..n -> CliChars] : n \in 0..MaxInput}

select_index_unguarded(choice, n) ==
    IF IsInt(choice) /\ IntVal(choice) - 1 < n /\ IntVal(choice) - 1 >= 0 - n
    THEN IF IntVal(choice) - 1 < 0 THEN IntVal(choice) + n ELSE IntVal(choice)
    ELSE None

\* select_item: idx = int(choice) - 1; if 0 <= idx < len(items): the
\* position, counted from 1, of the item returned; None where the loop
\* prompts again (ValueError from int() or the else branch)
select_index(choice, n) ==
    IF IsInt(choice) /\ 0 <= IntVal(choice) - 1 /\ IntVal(choice) - 1 < n
    THEN IntVal(choice)
    ELSE None

\* What the CLI loop records of a line: the directory and the length of
\* the list it was typed at, the line, and the object select_item returned
CliEv(e, inp, obj) ==
    [NoEvent EXCEPT !.ev = e, !.cur = current_dir, !.n = Len(items),
                    !.input = inp, !.obj = obj]

InitCli ==
    /\ TableIdle
    /\ dirs = SampleTree
    /\ loadStack = <<>>
    /\ pc = "loaded"
    /\ TuiIdle

\* main: current_dir = root_dir
CliStart ==
    /\ pc = "loaded"
    /\ IF ~bool_dir(dirs[1])
       THEN pc' = "exited" /\ UNCHANGED current_dir
       ELSE pc' = "cli_browse" /\ current_dir' = 1
    /\ UNCHANGED <<tableVars, api_calls, treeVars, selected_idx, path_stack, logo_lines,
                   height, max_display_items, start_idx, view_table, result_text,
                   last, trail>>

\* main: items = browse_directory(current_dir), which prints the list
CliBrowse ==
    /\ pc = "cli_browse"
    /\ pc' = "cli_select"
    /\ last' = NoEvent
    /\ UNCHANGED <<tableVars, api_calls, treeVars, tuiLocals, trail>>

\* select_item: one line of input.  'q' exits; a number of the list
\* returns its item to main, which makes a directory the current one or
\* runs query_table on a table; anything else prints a notice and the
\* loop of select_item prompts again.
CliSelect ==
    /\ pc = "cli_select"
    /\ \E inp \in CliInputs :
          LET choice == strip(inp)
              k == select_index(choice, Len(items))
          IN IF lower(choice) = <<"q">>
             THEN /\ pc' = "exited"
                  /\ last' = CliEv("select_quit", inp, NoRef)
                  /\ UNCHANGED <<current_dir, view_table>>
             ELSE IF k = None
             THEN /\ pc' = "cli_select"
                  /\ last' = CliEv("select_invalid", inp, NoRef)
                  /\ UNCHANGED <<current_dir, view_table>>
             ELSE /\ last' = CliEv("select_item", inp, items[k].obj)
                  /\ IF items[k].type = "TABLE"
                     THEN /\ view_table' = items[k].obj
                          /\ pc' = "cli_query"
                          /\ UNCHANGED current_dir
                     ELSE /\ current_dir' = items[k].obj.dir
                          /\ pc' = "cli_browse"
                          /\ UNCHANGED view_table
    /\ UNCHANGED <<tableVars, api_calls, treeVars, selected_idx, path_stack, logo_lines,
                   height, max_display_items, start_idx, result_text, trail>>

\* query_table: one line of input.  'q' exits, 'b' returns to main's
\* loop, anything else is looked up and answered, and the loop prompts
\* again.
CliQuery ==
    /\ pc = "cli_query"
    /\ \E inp \in {i \in Inputs : Len(i) <= 1} :
          LET user_input == strip(inp)
          IN /\ last' = CliEv("cli_query", inp, view_table)
             /\ IF lower(user_input) = <<"q">>
                THEN pc' = "exited" /\ UNCHANGED <<view_table, result_text>>
                ELSE IF lower(user_input) = <<"b">>
                THEN /\ pc' = "cli_browse"
                     /\ view_table' = NoRef
                     /\ result_text' = NoResult
                ELSE /\ pc' = "cli_query"
                     /\ result_text' = query_result(TableOf(view_table), user_input)
                     /\ UNCHANGED view_table
    /\ UNCHANGED <<tableVars, api_calls, treeVars, current_dir, selected_idx, path_stack,
                   logo_lines, height, max_display_items, start_idx, trail>>

NextCli == CliStart \/ CliBrowse \/ CliSelect \/ CliQuery

SpecCli == InitCli /\ [][NextCli]_vars

\* The list printed for the directory the last line was typed at
ListedItems == get_items_for_dir(dirs, last.cur)

\* The line is "q" or "Q" with nothing but blanks around it
TypedQuitChoice(inp) ==
    \E i \in DOMAIN inp :
        /\ inp[i] \in {"q", "Q"}
        /\ \A j \in DOMAIN inp : j # i => inp[j] = " "

\* The line is a whole number, with an optional minus sign, between blanks
TypedNumber(inp) ==
    LET t == strip(inp)
        d == IF t # <<>> /\ Head(t) = "-" THEN Tail(t) ELSE t
    IN d # <<>> /\ \A i \in DOMAIN d : d[i] \in Digits

\* C30: what select_item returns is the object of the listed item at
\* position choice, for a number typed with 1 <= choice <= len(items); a
\* number outside that range or a line that is no number prompts again
\* with current_dir unchanged; "q" or "Q" exits.
C30_SelectItem ==
    /\ last.ev = "select_item" =>
           /\ TypedNumber(last.input)
           /\ 1 <= IntVal(last.input) /\ IntVal(last.input) <= last.n
           /\ last.obj = ListedItems[IntVal(last.input)].obj
           /\ \E k \in 1..Len(ListedItems) : ListedItems[k].obj = last.obj
    /\ (last.ev \in {"select_item", "select_invalid", "select_quit"}
            /\ TypedNumber(last.input)
            /\ 1 <= IntVal(last.input) /\ IntVal(last.input) <= last.n) =>
           last.ev = "select_item"
    /\ (last.ev \in {"select_item", "select_invalid", "select_quit"}
            /\ ~TypedQuitChoice(last.input)
            /\ ~(TypedNumber(last.input)
                   /\ 1 <= IntVal(last.input) /\ IntVal(last.input) <= last.n)) =>
           /\ last.ev = "select_invalid"
           /\ pc = "cli_select"
           /\ current_dir = last.cur
    /\ (last.ev \in {"select_item", "select_invalid", "select_quit"}
            /\ TypedQuitChoice(last.input)) =>
           last.ev = "select_quit" /\ pc = "exited"

\* The second of several items was selected by its number
C30_Witness ==
    /\ last.ev = "select_item"
    /\ IntVal(last.input) = 2
    /\ last.n >= 3
    /\ current_dir # last.cur

\* The number 0 and a number past the list were typed and refused
C30_WitnessRefused ==
    /\ last.ev = "select_invalid"
    /\ TypedNumber(last.input)
    /\ IntVal(last.input) = 0
    /\ last.n >= 3

====
